---------------------------- MODULE Spec2Model ----------------------------
(***************************************************************************)
(* Model of the command-line argument engine of cargo-pio:                 *)
(*   src/src/cli/arg.rs        Arg, ArgOpts, ArgDef::format, FormattedArg  *)
(*   src/src/cli/parse_args.rs Args, ArgDef::parse_value, parse_from       *)
(*                                                                         *)
(* A token (Rust String) is a sequence of one-character strings, so that   *)
(* slicing, prefix tests and concatenation are computed, not assumed.      *)
(* Indices into the token vector are 0-based as in the source; element k   *)
(* of the vector is args[k + 1] of the TLA+ sequence.                      *)
(***************************************************************************)
EXTENDS Integers, Sequences, FiniteSets, TLC

VARIABLES
    args,       \* Args.0 : Vec<String>, the live token sequence
    input,      \* the token sequence as handed to Args::from_iter
    defs,       \* the array [&ArgDef; N] of the running Args::parse call
    results,    \* parse_from: results : [Option<Option<String>>; N]
    i,          \* parse_from: let mut i
    def_i,      \* parse_from: position of the for loop (1-based; N + 1 = loop over)
    removed,    \* parse_from: let mut removed
    pc,         \* control position of the program
    run,        \* number of Args::parse calls started on this Args
    prev,       \* what the previous Args::parse call returned and left behind
    fcall,      \* the pending ArgDef::format call: its self and its value
    formatted   \* the FormattedArg that call returned

vars == <<args, input, defs, results, i, def_i, removed, pc, run, prev, fcall, formatted>>

-----------------------------------------------------------------------------
(* Bounds of the model *)

\* longest token sequence handed to Args::from_iter
MaxArgs == 3
\* largest number of leading hyphens of an input token
MaxHyphens == 2
\* largest N of a batch of several definitions
MaxDefs == 2
\* number of Args::parse calls made on one Args
MaxRuns == 2

-----------------------------------------------------------------------------
(* Text *)

HY == "-"
EQ == "="

\* s[from..] of Rust, from a 0-based byte index
From(s, from) == SubSeq(s, from + 1, Len(s))

\* str::starts_with
starts_with(s, p) == Len(p) <= Len(s) /\ SubSeq(s, 1, Len(p)) = p

\* arg.chars().take_while(|s| *s == '-').count()
RECURSIVE hyphen_count(_)
hyphen_count(s) ==
    IF s # <<>> /\ Head(s) = HY THEN 1 + hyphen_count(From(s, 1)) ELSE 0

Hyphens(k) == [j \in 1..k |-> HY]

Min(a, b) == IF a <= b THEN a ELSE b

-----------------------------------------------------------------------------
(* arg.rs: Arg, ArgOpts, ArgDef *)

Flag == "Flag"
Option == "Option"

SINGLE_HYPHEN == "SINGLE_HYPHEN"
DOUBLE_HYPHEN == "DOUBLE_HYPHEN"
VALUE_SEP_NO_SPACE == "VALUE_SEP_NO_SPACE"
VALUE_SEP_EQUALS == "VALUE_SEP_EQUALS"
VALUE_SEP_NEXT_ARG == "VALUE_SEP_NEXT_ARG"

\* the bit set ArgOpts, as the set of the bits that are set
ArgOpts == SUBSET {SINGLE_HYPHEN, DOUBLE_HYPHEN, VALUE_SEP_NO_SPACE,
                   VALUE_SEP_EQUALS, VALUE_SEP_NEXT_ARG}

\* Option<T> as a sequence of at most one element
NoneV == <<>>
Some(x) == <<x>>
unwrap(o) == o[1]

ArgDef(arg, name, alias, opts) ==
    [arg |-> arg, name |-> name, alias |-> alias, opts |-> opts]

\* Arg::with_name, ArgDef::with_alias, ArgDef::with_opts
with_name(arg, name) == ArgDef(arg, name, <<>>, {})
with_alias(d, alias) == [d EXCEPT !.alias = alias]
with_opts(d, opts) == [d EXCEPT !.opts = opts]

is_hyphen_count(opts, count) ==
    \/ count = 1 /\ SINGLE_HYPHEN \in opts
    \/ count = 2 /\ DOUBLE_HYPHEN \in opts

\* ArgOpts::parse_value_sep: the returned bool and the value written to
\* out_sep_len (written on every call, also on a failing one)
parse_value_sep(opts, s) ==
    LET c == IF s = <<>> THEN NoneV ELSE Some(Head(s)) IN
    IF c = Some(EQ) /\ VALUE_SEP_EQUALS \in opts
        THEN [result |-> TRUE, sep_len |-> Some(1)]
    ELSE IF c = NoneV /\ VALUE_SEP_NEXT_ARG \in opts
        THEN [result |-> TRUE, sep_len |-> NoneV]
    ELSE IF VALUE_SEP_NO_SPACE \in opts THEN [result |-> TRUE, sep_len |-> Some(0)]
    ELSE [result |-> FALSE, sep_len |-> NoneV]

-----------------------------------------------------------------------------
(* arg.rs: FormattedArg and ArgDef::format *)

FNone == [tag |-> "None", first |-> <<>>, second |-> <<>>]
One(t) == [tag |-> "One", first |-> t, second |-> <<>>]
Two(a, b) == [tag |-> "Two", first |-> a, second |-> b]
\* value.unwrap() on a None value
FPanic == [tag |-> "panic", first |-> <<>>, second |-> <<>>]

format(d, value) ==
    IF d.arg = Flag /\ d.opts = {} THEN
        LET second_hyphen == IF Len(d.name) > 1 THEN <<HY>> ELSE <<>>
        IN  One(<<HY>> \o second_hyphen \o d.name)
    ELSE IF d.arg = Flag THEN
        LET second_hyphen == IF SINGLE_HYPHEN \in d.opts THEN <<>> ELSE <<HY>>
        IN  One(<<HY>> \o second_hyphen \o d.name)
    ELSE
        LET sep == IF VALUE_SEP_EQUALS \in d.opts THEN Some(<<EQ>>)
                   ELSE IF VALUE_SEP_NO_SPACE \in d.opts THEN Some(<<>>)
                   ELSE NoneV
            second_hyphen ==
                IF SINGLE_HYPHEN \in d.opts THEN <<>>
                ELSE IF DOUBLE_HYPHEN \in d.opts THEN <<HY>>
                ELSE IF Len(d.name) > 1 THEN <<HY>> ELSE <<>>
        IN  IF value = NoneV THEN FPanic
            ELSE IF sep # NoneV
                THEN One(<<HY>> \o second_hyphen \o d.name \o unwrap(sep)
                         \o unwrap(value))
                ELSE Two(<<HY>> \o second_hyphen \o d.name, unwrap(value))

\* FormattedArg as Iterator, run to its end: the tokens in emission order
Collect(f) ==
    IF f.tag = "Two" THEN <<f.first, f.second>>
    ELSE IF f.tag = "One" THEN <<f.first>>
    ELSE <<>>

-----------------------------------------------------------------------------
(* parse_args.rs: ArgDef::is_name_eq, ArgDef::parse_value *)

\* Option<Option<String>>
Absent == [tag |-> "None", val |-> <<>>]
SomeNone == [tag |-> "SomeNone", val |-> <<>>]
SomeSome(s) == [tag |-> "SomeSome", val |-> s]

is_some(r) == r.tag # "None"

\* is_name_eq without the aliases
is_name_eq_name_only(d, s) ==
    d.name = s

is_name_eq(d, s) ==
    d.name = s \/ \E k \in 1..Len(d.alias) : d.alias[k] = s

\* the token emptied in place (std::mem::take) instead of removed
Remove_take(v, k) == [v EXCEPT ![k + 1] = <<>>]

\* the drain begun at the front of the vector (..=hi) instead of at lo
Drain_from_front(v, lo, hi) == SubSeq(v, hi + 2, Len(v))

\* Vec::remove(k) and Vec::drain(lo..=hi), 0-based: what is left
Remove(v, k) == SubSeq(v, 1, k) \o SubSeq(v, k + 2, Len(v))
Drain(v, lo, hi) == SubSeq(v, 1, lo) \o SubSeq(v, hi + 2, Len(v))

\* the name, then the aliases in declared order
Candidates(d) == <<d.name>> \o d.alias

\* the first of name, aliases the body starts with, given up (0) when its
\* remainder fits no separator, without a look at the later entries
MatchIndex_first_prefix(d, body) ==
    LET pre == {k \in 1..Len(<<d.name>> \o d.alias) :
                    starts_with(body, (<<d.name>> \o d.alias)[k])}
        f == CHOOSE k \in pre : \A h \in pre : k <= h
    IN  IF pre = {} THEN 0
        ELSE IF parse_value_sep(d.opts, From(body, Len((<<d.name>> \o d.alias)[f]))).result
            THEN f ELSE 0

\* lines 46-62: the first of name, aliases the body starts with and whose
\* remainder parse_value_sep accepts (0 if none), and the out_sep_len of
\* that call
MatchIndex(d, body) ==
    LET ok(k) == /\ starts_with(body, Candidates(d)[k])
                 /\ parse_value_sep(d.opts, From(body, Len(Candidates(d)[k]))).result
        hits == {k \in 1..Len(Candidates(d)) : ok(k)}
    IN  IF hits = {} THEN 0 ELSE CHOOSE k \in hits : \A h \in hits : k <= h

\* parse_value(&self, i, args): [panic, result, args]
parse_value(d, idx, v) ==
    IF idx >= Len(v) THEN [panic |-> TRUE, result |-> Absent, args |-> v]
    ELSE
    LET arg == v[idx + 1]
        hc == hyphen_count(arg)
        body == From(arg, hc)
        nomatch == [panic |-> FALSE, result |-> Absent, args |-> v]
    IN
    IF is_hyphen_count(d.opts, hc) THEN nomatch
    ELSE IF d.arg = Flag THEN
        IF is_name_eq(d, body)
        THEN [panic |-> FALSE, result |-> SomeNone, args |-> Remove(v, idx)]
        ELSE nomatch
    ELSE
        LET m == MatchIndex(d, body) IN
        IF m = 0 THEN nomatch
        ELSE
        LET name_len == Len(Candidates(d)[m])
            sep_len == parse_value_sep(d.opts, From(body, name_len)).sep_len
        IN  IF sep_len # NoneV
            THEN [panic |-> FALSE,
                  result |-> SomeSome(From(arg, name_len + unwrap(sep_len))),
                  args |-> Remove(v, idx)]
            ELSE
            LET end_index == Min(idx + 1, Len(v) - 1) IN
                [panic |-> FALSE,
                 result |-> IF end_index = idx + 1 THEN SomeSome(v[idx + 2])
                            ELSE SomeNone,
                 args |-> Drain(v, idx, end_index)]

-----------------------------------------------------------------------------
(* The inputs the model draws from *)

NameN == <<"n">>
NameNA == <<"n", "a">>
ValueV == <<"v">>

\* name and aliases of a definition: a one-character name, a longer name,
\* and each of the two as the alias of the other
NameAlias == {<<NameN, <<>>>>, <<NameNA, <<>>>>,
              <<NameNA, <<NameN>>>>, <<NameN, <<NameNA>>>>}

\* the same for the definitions that are parsed alone
ParseNameAlias == NameAlias \ {<<NameNA, <<>>>>}

HyphenOpts == SUBSET {SINGLE_HYPHEN, DOUBLE_HYPHEN}

\* every definition over these names: the receivers of format
AllDefs == {with_opts(with_alias(with_name(a, na[1]), na[2]), o) :
                a \in {Flag, Option}, na \in NameAlias, o \in ArgOpts}

\* the values handed to format
FormatValues == {NoneV, Some(ValueV), Some(<<>>)}

\* the definitions parsed alone: the separator bits of a Flag are never read
\* by parse_value, so Flags carry hyphen bits only
ParseDefs == {d \in AllDefs : /\ <<d.name, d.alias>> \in ParseNameAlias
                              /\ d.arg = Flag => d.opts \in HyphenOpts}

\* the definitions parsed in batches of several
BatchDefs == {with_name(Flag, NameN), with_name(Flag, NameNA),
              with_opts(with_name(Option, NameN), {VALUE_SEP_EQUALS}),
              with_opts(with_name(Option, NameNA), {VALUE_SEP_NEXT_ARG})}

DefArrays == {<<d>> : d \in ParseDefs}
             \cup UNION {[1..k -> BatchDefs] : k \in 2..MaxDefs}

\* token bodies: a name, a name with =value, a name with a value appended
\* (NameNA is also NameN followed by the value "a"), an unrelated word
Bodies == {NameN, NameNA, NameN \o <<EQ>> \o ValueV, ValueV}

Tokens == {Hyphens(h) \o b : h \in 0..MaxHyphens, b \in Bodies}

ArgSeqs == UNION {[1..k -> Tokens] : k \in 0..MaxArgs}

-----------------------------------------------------------------------------
(* The program *)

NoPrev == [results |-> <<>>, args |-> <<>>]

\* the shape of the state
TypeOK ==
    /\ pc \in {"new", "formatted", "ready", "while", "for", "done", "panic"}
    /\ i \in 0..Len(input)
    /\ def_i \in 0..(Len(defs) + 1)
    /\ removed \in BOOLEAN
    /\ run \in 0..MaxRuns
    /\ Len(args) <= Len(input)
    /\ Len(results) = Len(defs)
    /\ \A k \in 1..Len(results) : results[k].tag \in {"None", "SomeNone", "SomeSome"}
    /\ Len(fcall) <= 1
    /\ formatted.tag \in {"None", "One", "Two", "panic"}

Init ==
    /\ args = <<>>
    /\ input = <<>>
    /\ defs = <<>>
    /\ results = <<>>
    /\ i = 0
    /\ def_i = 0
    /\ removed = FALSE
    /\ pc = "new"
    /\ run = 0
    /\ prev = NoPrev
    /\ fcall = <<>>
    /\ formatted = FNone

\* Args::from_iter over the host program's tokens
FromIter ==
    /\ pc = "new"
    /\ \E toks \in ArgSeqs :
        /\ args' = toks
        /\ input' = toks
    /\ pc' = "ready"
    /\ UNCHANGED <<defs, results, i, def_i, removed, run, prev, fcall, formatted>>

\* d.format(value)
Format ==
    /\ pc = "new"
    /\ \E d \in AllDefs, value \in FormatValues :
        /\ fcall' = <<[def |-> d, value |-> value]>>
        /\ formatted' = format(d, value)
        /\ pc' = IF format(d, value) = FPanic THEN "panic" ELSE "formatted"
    /\ UNCHANGED <<args, input, defs, results, i, def_i, removed, run, prev>>

\* Args::from_iter over a FormattedArg, which the iteration leaves as None
FromFormatted ==
    /\ pc = "formatted"
    /\ args' = Collect(formatted)
    /\ input' = Collect(formatted)
    /\ formatted' = FNone
    /\ fcall' = <<>>
    /\ pc' = "ready"
    /\ UNCHANGED <<defs, results, i, def_i, removed, run, prev>>

\* Args::parse(defs), parse_from up to the head of the while loop
Parse ==
    /\ pc = "ready"
    /\ \E ds \in DefArrays :
        /\ defs' = ds
        /\ results' = [k \in 1..Len(ds) |-> Absent]
    /\ i' = 0
    /\ run' = 1
    /\ pc' = "while"
    /\ UNCHANGED <<args, input, def_i, removed, prev, fcall, formatted>>

\* Args::parse once more, with the same definitions, over what the
\* previous call left
ParseAgain ==
    /\ pc = "done"
    /\ run < MaxRuns
    /\ prev' = [results |-> results, args |-> args]
    /\ results' = [k \in 1..Len(defs) |-> Absent]
    /\ i' = 0
    /\ run' = run + 1
    /\ pc' = "while"
    /\ UNCHANGED <<args, input, defs, def_i, removed, fcall, formatted>>

\* while i < args.len() { let mut removed = false; ... } results
WhileTest ==
    /\ pc = "while"
    /\ IF i < Len(args)
       THEN /\ removed' = FALSE
            /\ def_i' = 1
            /\ pc' = "for"
       ELSE /\ pc' = "done"
            /\ UNCHANGED <<removed, def_i>>
    /\ UNCHANGED <<args, input, defs, results, i, run, prev, fcall, formatted>>

\* one iteration of for (def_i, def) in self.iter().enumerate()
ForStep ==
    /\ pc = "for"
    /\ def_i <= Len(defs)
    /\ LET r == parse_value(defs[def_i], i, args) IN
       IF r.panic
       THEN /\ pc' = "panic"
            /\ UNCHANGED <<args, results, removed, def_i>>
       ELSE /\ removed' = is_some(r.result)
            /\ results' = [results EXCEPT ![def_i] = r.result]
            /\ args' = r.args
            /\ def_i' = def_i + 1
            /\ pc' = "for"
    /\ UNCHANGED <<input, defs, i, run, prev, fcall, formatted>>

\* if !removed { i += 1; }
ForEnd ==
    /\ pc = "for"
    /\ def_i > Len(defs)
    /\ i' = IF ~removed THEN i + 1 ELSE i
    /\ pc' = "while"
    /\ UNCHANGED <<args, input, defs, results, def_i, removed, run, prev, fcall, formatted>>

Next ==
    \/ FromIter
    \/ Format
    \/ FromFormatted
    \/ Parse
    \/ ParseAgain
    \/ WhileTest
    \/ ForStep
    \/ ForEnd

Spec == Init /\ [][Next]_vars

\* format, collect, parse: the token sequence comes from a FormattedArg only
NextRoundTrip ==
    \/ Format
    \/ FromFormatted
    \/ Parse
    \/ ParseAgain
    \/ WhileTest
    \/ ForStep
    \/ ForEnd

SpecRoundTrip == Init /\ [][NextRoundTrip]_vars

-----------------------------------------------------------------------------
(* What the claims speak of *)

\* s is t with some elements removed
RECURSIVE IsSubseq(_, _)
IsSubseq(s, t) ==
    IF s = <<>> THEN TRUE
    ELSE IF t = <<>> THEN FALSE
    ELSE IF Head(s) = Head(t) THEN IsSubseq(From(s, 1), From(t, 1))
    ELSE IsSubseq(s, From(t, 1))

SepOpts(d) == d.opts \cap {VALUE_SEP_NO_SPACE, VALUE_SEP_EQUALS, VALUE_SEP_NEXT_ARG}

\* the hyphen counts a definition accepts according to the specification: the
\* explicit facets, or the count inferred from the name's length
AllowedHyphens(d) ==
    IF d.opts \cap {SINGLE_HYPHEN, DOUBLE_HYPHEN} = {}
    THEN {IF Len(d.name) = 1 THEN 1 ELSE 2}
    ELSE {1 : x \in d.opts \cap {SINGLE_HYPHEN}} \cup {2 : x \in d.opts \cap {DOUBLE_HYPHEN}}

\* the prefix format is to produce according to the specification
PrescribedPrefix(d) ==
    IF SINGLE_HYPHEN \in d.opts THEN Hyphens(1)
    ELSE IF DOUBLE_HYPHEN \in d.opts THEN Hyphens(2)
    ELSE IF Len(d.name) = 1 THEN Hyphens(1) ELSE Hyphens(2)

Names(d) == {Candidates(d)[k] : k \in 1..Len(Candidates(d))}

\* the remainder of a body after a name has one of the enabled separator shapes
SepShape(d, rest) ==
    \/ VALUE_SEP_EQUALS \in d.opts /\ starts_with(rest, <<EQ>>)
    \/ VALUE_SEP_NEXT_ARG \in d.opts /\ rest = <<>>
    \/ VALUE_SEP_NO_SPACE \in d.opts

\* t is one of the textual forms of d according to the specification
IsForm(d, t) ==
    LET h == hyphen_count(t)
        body == From(t, h)
    IN  /\ h \in AllowedHyphens(d)
        /\ IF d.arg = Flag THEN body \in Names(d)
           ELSE \E c \in Names(d) :
                    starts_with(body, c) /\ SepShape(d, From(body, Len(c)))

\* the body of t does not even begin with the name or an alias of d
Unrelated(d, t) ==
    \A c \in Names(d) : ~starts_with(From(t, hyphen_count(t)), c)

\* t is <hyphens><name><sep><v> for the one inline separator d enables
InlineForm(d, t, v) ==
    /\ d.arg = Option
    /\ \E h \in AllowedHyphens(d) :
        \/ SepOpts(d) = {VALUE_SEP_EQUALS} /\ t = Hyphens(h) \o d.name \o <<EQ>> \o v
        \/ SepOpts(d) = {VALUE_SEP_NO_SPACE} /\ t = Hyphens(h) \o d.name \o v

\* the texts a token can end with
Suffixes(t) == {From(t, k) : k \in 0..Len(t)}

\* the first Args::parse call on this Args has returned
Returned == pc = "done" /\ run = 1

-----------------------------------------------------------------------------
(* C1..C10 *)

\* C1: for an Option whose only separator facet is separator-equals (resp.
\* separator-none), parsing the one-token sequence [<hyphens><name>=<v>]
\* (resp. [<hyphens><name><v>]) yields present-with-value v exactly and
\* leaves the sequence empty.
C1_InlineValueIsExact ==
    (Returned /\ Len(defs) = 1 /\ Len(input) = 1) =>
        \A v \in Suffixes(input[1]) :
            InlineForm(defs[1], input[1], v) =>
                results[1] = SomeSome(v) /\ args = <<>>

\* C2: for an Option with only separator-next-token enabled, parsing a
\* sequence that begins <hyphens><name>, v and goes on with unrelated tokens
\* yields present-with-value v and removes exactly those two tokens.
C2_NextTokenValue ==
    (/\ Returned /\ Len(defs) = 1 /\ Len(input) >= 3
     /\ defs[1].arg = Option /\ SepOpts(defs[1]) = {VALUE_SEP_NEXT_ARG}
     /\ \E h \in AllowedHyphens(defs[1]) : input[1] = Hyphens(h) \o defs[1].name
     /\ \A k \in 2..Len(input) : Unrelated(defs[1], input[k]))
    => results[1] = SomeSome(input[2]) /\ args = From(input, 2)

\* C3: with a single Option definition and exactly one occurrence of it among
\* tokens that are not occurrences, the result is present-with-value with the
\* occurrence's value and the sequence keeps exactly the other tokens in order.
C3_NonInterference ==
    (Returned /\ Len(defs) = 1 /\ Len(input) >= 2) =>
        \A k \in 1..Len(input) : \A v \in Suffixes(input[k]) :
            (/\ InlineForm(defs[1], input[k], v)
             /\ \A j \in 1..Len(input) : j # k => Unrelated(defs[1], input[j]))
            => results[1] = SomeSome(v) /\ args = Remove(input, k - 1)

\* C4: a second parse with the same definitions over what the first parse
\* left returns absent for every definition and leaves the sequence as it was.
C4_ReparseIdempotent ==
    (pc = "done" /\ run >= 2) =>
        /\ \A k \in 1..Len(defs) : results[k] = Absent
        /\ args = prev.args

\* C5: batch parse is total: it never aborts, for any number of definitions,
\* and it returns one result per definition.
C5_ParseIsTotal ==
    /\ ~(pc = "panic" /\ run >= 1)
    /\ pc = "done" => Len(results) = Len(defs)

\* C6: if no token of the sequence is one of the definition's accepted
\* textual forms, parse returns absent and leaves the sequence unchanged.
C6_Absence ==
    (/\ Returned /\ Len(defs) = 1
     /\ \A k \in 1..Len(input) : ~IsForm(defs[1], input[k]))
    => results[1] = Absent /\ args = input

\* C7: for a Flag with default SyntaxOptions, parsing the one token that
\* format produces, for the name or for any alias in place of the name,
\* yields present-as-flag and an empty sequence.
C7_FlagRoundTrip ==
    (/\ Returned /\ Len(defs) = 1
     /\ defs[1].arg = Flag /\ defs[1].opts = {}
     /\ \E nm \in Names(defs[1]) :
            input = Collect(format([defs[1] EXCEPT !.name = nm], NoneV)))
    => results = <<SomeNone>> /\ args = <<>>

\* C7 happens: a default Flag was parsed from the token built from an alias
C7_Witness ==
    /\ Returned /\ Len(defs) = 1
    /\ defs[1].arg = Flag /\ defs[1].opts = {}
    /\ \E k \in 1..Len(defs[1].alias) :
            input = Collect(format([defs[1] EXCEPT !.name = defs[1].alias[k]], NoneV))
    /\ results = <<SomeNone>> /\ args = <<>>

\* C8: at every point of a batch parse and after it, the token sequence is
\* the input sequence with tokens removed: same texts, same order, no token
\* more often than in the input.
C8_OnlyRemoved ==
    IsSubseq(args, input)

\* C8 happens: a parse removed tokens, a following value among them, and
\* left others behind
C8_Witness ==
    /\ pc = "done"
    /\ Len(args) > 0
    /\ Len(args) + 2 <= Len(input)
    /\ \E k \in 1..Len(defs) : results[k].tag = "SomeSome"

\* the rendering the specification prescribes
Prescribed(d, v) ==
    IF d.arg = Flag THEN One(PrescribedPrefix(d) \o d.name)
    ELSE IF VALUE_SEP_EQUALS \in d.opts
        THEN One(PrescribedPrefix(d) \o d.name \o <<EQ>> \o v)
    ELSE IF VALUE_SEP_NO_SPACE \in d.opts
        THEN One(PrescribedPrefix(d) \o d.name \o v)
    ELSE Two(PrescribedPrefix(d) \o d.name, v)

\* C9: format returns the prescribed rendering for every kind, name,
\* SyntaxOptions and value: one hyphen if single-hyphen is set, else two if
\* double-hyphen is set, else by the name's length, for Flags and Options.
C9_FormatAsPrescribed ==
    (pc = "formatted" /\ fcall[1].value # NoneV) =>
        formatted = Prescribed(fcall[1].def, unwrap(fcall[1].value))

\* C10: an Option built with the default options is serialized as the single
\* token -nvalue for a one-character name and --name=value otherwise.
C10_DefaultOptionSerialization ==
    (/\ pc = "formatted"
     /\ \E nm \in {NameN, NameNA} : fcall[1].def = with_name(Option, nm))
    => formatted =
        LET d == fcall[1].def
            v == unwrap(fcall[1].value)
        IN  IF Len(d.name) = 1 THEN One(Hyphens(1) \o d.name \o v)
            ELSE One(Hyphens(2) \o d.name \o <<EQ>> \o v)

-----------------------------------------------------------------------------
(* C11..C14 *)

\* the next step is a call of parse_value for defs[def_i] on the token at i
Probe == pc = "for" /\ def_i <= Len(defs) /\ i < Len(args)

\* the token that call reads, its hyphen count and its body
ProbedToken == args[i + 1]
ProbedHyphens == hyphen_count(ProbedToken)
ProbedBody == From(ProbedToken, ProbedHyphens)

\* C11: single-definition extraction matches a token only when its number of
\* leading hyphens is enabled for the definition: with single-hyphen (resp.
\* double-hyphen) explicitly enabled, one (resp. two) hyphens followed by the
\* name are matched, and a token whose hyphen count is not enabled is no
\* match and stays in the sequence.
C11_HyphenCountDecides ==
    [][(Probe /\ defs[def_i].opts \cap {SINGLE_HYPHEN, DOUBLE_HYPHEN} # {}) =>
        LET d == defs[def_i] IN
        /\ (/\ is_hyphen_count(d.opts, ProbedHyphens)
            /\ IF d.arg = Flag THEN ProbedBody = d.name
               ELSE /\ starts_with(ProbedBody, d.name)
                    /\ SepShape(d, From(ProbedBody, Len(d.name))))
           => is_some(results'[def_i])
        /\ ~is_hyphen_count(d.opts, ProbedHyphens)
           => results'[def_i] = Absent /\ args' = args
      ]_vars

\* C12: after all N definitions were tried at index i, the index stays at i
\* if any of the definitions matched at that position and advances by exactly
\* one otherwise.  (Every definition is probed in every iteration, so at the
\* end of the for loop results holds this iteration's outcomes.)
C12_IndexStaysIfAnyMatched ==
    [][(pc = "for" /\ def_i > Len(defs)) =>
        i' = IF \E k \in 1..Len(defs) : is_some(results[k]) THEN i ELSE i + 1
      ]_vars

\* C13: when an Option with separator-next-token enabled matches the last
\* token of the sequence (the body is the name, no token follows), the
\* extraction does not fail, removes that one token only and reports present
\* with no value text; no other token is removed or used as the value.
C13_NextTokenAtEnd ==
    [][(/\ Probe
        /\ defs[def_i].arg = Option
        /\ VALUE_SEP_NEXT_ARG \in defs[def_i].opts
        /\ i = Len(args) - 1
        /\ ProbedBody = defs[def_i].name) =>
        /\ pc' # "panic"
        /\ is_some(results'[def_i]) =>
                results'[def_i] = SomeNone /\ args' = SubSeq(args, 1, i)
        /\ ~is_some(results'[def_i]) => args' = args
      ]_vars

\* C13 happens: an Option with separator-next-token has just matched the
\* last token, other tokens standing before it
C13_Witness ==
    /\ pc = "for" /\ def_i >= 2
    /\ defs[def_i - 1].arg = Option
    /\ VALUE_SEP_NEXT_ARG \in defs[def_i - 1].opts
    /\ results[def_i - 1] = SomeNone
    /\ i >= 1 /\ Len(args) = i
    /\ args = SubSeq(input, 1, i)

\* the entries of [name, alias 1, ...] the body starts with
Prefixes(d, body) ==
    {k \in 1..Len(Candidates(d)) : starts_with(body, Candidates(d)[k])}

\* those of them whose remainder has an enabled separator shape
Fitting(d, body) ==
    {k \in Prefixes(d, body) : SepShape(d, From(body, Len(Candidates(d)[k])))}

Least(S) == CHOOSE k \in S : \A h \in S : k <= h

\* the next step probes an Option and the token has passed the hyphen test
ProbeSplit ==
    /\ Probe
    /\ defs[def_i].arg = Option
    /\ ~is_hyphen_count(defs[def_i].opts, ProbedHyphens)

\* C14 as stated: the body is split at the first entry of [name, aliases] it
\* starts with; if no enabled separator style fits the remainder after that
\* entry the token is no match, no later alias being used instead.
C14_FirstPrefixOnly ==
    [][(/\ ProbeSplit
        /\ Prefixes(defs[def_i], ProbedBody) # {}
        /\ Least(Prefixes(defs[def_i], ProbedBody))
                \notin Fitting(defs[def_i], ProbedBody)) =>
        results'[def_i] = Absent /\ args' = args
      ]_vars

\* C14 as amended: the body is split at the first entry of [name, aliases]
\* that it starts with and whose remainder fits an enabled separator style;
\* the separator is resolved against the remainder after that entry (= with
\* separator-equals, else end of body with separator-next-token, else none),
\* and the token is no match only if no entry does both.  Where the token has
\* no hyphens the value is the remainder after entry and separator.
C14_FirstFittingEntry ==
    [][ProbeSplit =>
        LET d == defs[def_i]
            fit == Fitting(d, ProbedBody)
            c == Candidates(d)[Least(fit)]
            rest == From(ProbedBody, Len(c))
        IN  IF fit = {} THEN results'[def_i] = Absent /\ args' = args
            ELSE IF VALUE_SEP_EQUALS \in d.opts /\ starts_with(rest, <<EQ>>) THEN
                /\ results'[def_i].tag = "SomeSome"
                /\ ProbedHyphens = 0 => results'[def_i].val = From(rest, 1)
                /\ args' = Remove(args, i)
            ELSE IF VALUE_SEP_NEXT_ARG \in d.opts /\ rest = <<>> THEN
                /\ results'[def_i] = IF i + 1 < Len(args) THEN SomeSome(args[i + 2])
                                     ELSE SomeNone
                /\ args' = SubSeq(args, 1, i)
                           \o SubSeq(args, IF i + 1 < Len(args) THEN i + 3 ELSE i + 2,
                                     Len(args))
            ELSE
                /\ results'[def_i].tag = "SomeSome"
                /\ ProbedHyphens = 0 => results'[def_i].val = rest
                /\ args' = Remove(args, i)
      ]_vars

\* C14 happens: the name is a prefix of the body but its remainder fits no
\* enabled style, and the token was matched through the alias that follows
C14_Witness ==
    /\ pc = "for" /\ def_i = 2 /\ run = 1
    /\ Len(defs) = 1 /\ Len(input) = 1
    /\ defs[1].arg = Option
    /\ defs[1].name = NameN /\ defs[1].alias = <<NameNA>>
    /\ SepOpts(defs[1]) = {VALUE_SEP_NEXT_ARG}
    /\ From(input[1], hyphen_count(input[1])) = NameNA
    /\ results[1] = SomeNone /\ args = <<>>

=============================================================================
